---- MODULE Spec2Model ----
(***************************************************************************)
(* Model of backend/server.py: the four routes of the Pre-Charting API     *)
(* (GET /api/, POST /api/transcribe, POST /api/generate-notes,             *)
(* GET /api/notes), the fence stripping and schema validation done inside  *)
(* generate_clinical_notes, and the clinical_notes collection.             *)
(***************************************************************************)
EXTENDS Integers, Sequences, FiniteSets, TLC

(***************************************************************************)
(* Bounds of the model.                                                    *)
(***************************************************************************)
\* Number of HTTP requests that arrive in one behaviour.
NumReq == 2
\* Longest text X drawn for the fence-stripping specification.
MaxLen == 4

Req == 1..NumReq

(***************************************************************************)
(* Python values.  None is the empty tuple, Some(v) a one-element tuple.   *)
(***************************************************************************)
None == <<>>
Some(v) == <<v>>

(***************************************************************************)
(* JSON values, tagged so that values of different kinds compare unequal.  *)
(***************************************************************************)
JStr(s) == <<"str", s>>
JNull == <<"null">>
JNum(n) == <<"num", n>>
JArr(items) == <<"arr", items>>
JObj(f) == <<"obj", f>>

IsStr(v) == v[1] = "str"
IsArr(v) == v[1] = "arr"
IsObj(v) == v[1] = "obj"

\* A dict without one key, and a dict with one more key.
Without(f, k) == [x \in (DOMAIN f) \ {k} |-> f[x]]
With(f, k, v) == [x \in (DOMAIN f) \cup {k} |-> IF x = k THEN v ELSE f[x]]
Restrict(f, keys) == [x \in (DOMAIN f) \cap keys |-> f[x]]

(***************************************************************************)
(* Pydantic models (pydantic v2: a str field takes only a str, every       *)
(* field without a default is required, unknown keys are ignored).         *)
(***************************************************************************)
ICD10CodeFields == {"condition", "code"}
MedicationInteractionFields == {"drug_a", "drug_b", "severity", "note"}
StrFields == {"subjective", "objective", "assessment", "plan", "clinical_summary"}
StrListFields == {"red_flags", "non_verbal_signs"}
ClinicalOutputFields ==
    StrFields \cup StrListFields \cup {"icd10_codes", "medication_interactions"}

\* A sub-model (ICD10Code, MedicationInteraction) accepts a dict holding every
\* declared field as a str.
ValidItem(v, fields) ==
    /\ IsObj(v)
    /\ fields \subseteq DOMAIN v[2]
    /\ \A k \in fields : IsStr(v[2][k])

\* List[str]
ValidStrList(v) ==
    /\ IsArr(v)
    /\ \A i \in 1..Len(v[2]) : IsStr(v[2][i])

\* List[ICD10Code], List[MedicationInteraction]
ValidItemList(v, fields) ==
    /\ IsArr(v)
    /\ \A i \in 1..Len(v[2]) : ValidItem(v[2][i], fields)

\* The type check of one ClinicalOutput field.
FieldOk(k, v) ==
    CASE k \in StrFields -> IsStr(v)
      [] k \in StrListFields -> ValidStrList(v)
      [] k = "icd10_codes" -> ValidItemList(v, ICD10CodeFields)
      [] k = "medication_interactions" -> ValidItemList(v, MedicationInteractionFields)

\* Faulty variant of ClinicalOutputAccepts: red_flags declared with a default,
\* so that a dict without it is accepted.
AcceptsWithoutRedFlags(data) ==
    /\ IsObj(data)
    /\ \A k \in ClinicalOutputFields :
          IF k \in DOMAIN data[2] THEN FieldOk(k, data[2][k]) ELSE k = "red_flags"

\* ClinicalOutput(**clinical_data) does not raise: clinical_data is a dict
\* (** of anything else is a TypeError) with every field present and typed.
ClinicalOutputAccepts(data) ==
    /\ IsObj(data)
    /\ \A k \in ClinicalOutputFields :
          /\ k \in DOMAIN data[2]
          /\ FieldOk(k, data[2][k])

\* What a validated sub-model keeps of its dict: the declared fields.
DumpItem(v, fields) == JObj(Restrict(v[2], fields))

DumpField(k, v) ==
    CASE k = "icd10_codes" ->
            JArr([i \in 1..Len(v[2]) |-> DumpItem(v[2][i], ICD10CodeFields)])
      [] k = "medication_interactions" ->
            JArr([i \in 1..Len(v[2]) |-> DumpItem(v[2][i], MedicationInteractionFields)])
      [] OTHER -> v

\* The ClinicalOutput instance built from an accepted dict, as the JSON object
\* the route returns: the declared fields of the dict (all nine, for a dict
\* that is accepted) and nothing else.
ClinicalOutput(data) ==
    JObj([k \in ClinicalOutputFields \cap DOMAIN data[2] |-> DumpField(k, data[2][k])])

(***************************************************************************)
(* JSON documents the completion provider may send.                        *)
(***************************************************************************)
GoodIcd == JObj([condition |-> JStr("angina"), code |-> JStr("I20.9")])
GoodMed == JObj([drug_a |-> JStr("a"), drug_b |-> JStr("b"),
                 severity |-> JStr("high"), note |-> JStr("n")])

GoodFields ==
    [k \in ClinicalOutputFields |->
        CASE k \in StrFields -> JStr(k)
          [] k \in StrListFields -> JArr(<<JStr("chest pain")>>)
          [] k = "icd10_codes" -> JArr(<<GoodIcd>>)
          [] k = "medication_interactions" -> JArr(<<GoodMed>>)]

GoodDoc == JObj(GoodFields)
\* Unknown extra key at the top level.
ExtraDoc == JObj(With(GoodFields, "confidence", JNum(1)))
\* Unknown extra key inside an icd10_codes element.
NestedExtraDoc ==
    JObj(With(GoodFields, "icd10_codes",
              JArr(<<JObj(With(GoodIcd[2], "system", JStr("ICD-10")))>>)))
\* An icd10_codes element without its code.
BadItemDoc ==
    JObj(With(GoodFields, "icd10_codes", JArr(<<JObj(Without(GoodIcd[2], "code"))>>)))
MissingDoc(k) == JObj(Without(GoodFields, k))
NullDoc(k) == JObj(With(GoodFields, k, JNull))

\* The text of a JSON document is one symbol of a text; JsonTexts maps the
\* symbol to the value json.loads gives for it.
JsonTexts ==
    [s \in {"GOOD", "EXTRA", "NESTEDEXTRA", "BADITEM", "ARRAY"}
          \cup {"-" \o k : k \in ClinicalOutputFields}
          \cup {"0" \o k : k \in ClinicalOutputFields} |->
        CASE s = "GOOD" -> GoodDoc
          [] s = "EXTRA" -> ExtraDoc
          [] s = "NESTEDEXTRA" -> NestedExtraDoc
          [] s = "BADITEM" -> BadItemDoc
          [] s = "ARRAY" -> JArr(<<GoodDoc>>)
          [] \E k \in ClinicalOutputFields : s = "-" \o k ->
                MissingDoc(CHOOSE k \in ClinicalOutputFields : s = "-" \o k)
          [] OTHER ->
                NullDoc(CHOOSE k \in ClinicalOutputFields : s = "0" \o k)]

(***************************************************************************)
(* Texts are sequences of symbols: Tick a backtick, a blank for white     *)
(* space, the letters of the json tag, x for any other character, and the  *)
(* symbols of JsonTexts.                                                   *)
(***************************************************************************)
Tick == "tick"
Fence == <<Tick, Tick, Tick>>
FenceJson == Fence \o <<"j", "s", "o", "n">>
Whitespace == {" "}

StartsWith(s, p) == Len(s) >= Len(p) /\ SubSeq(s, 1, Len(p)) = p
EndsWith(s, p) == Len(s) >= Len(p) /\ SubSeq(s, Len(s) - Len(p) + 1, Len(s)) = p
Drop(s, n) == SubSeq(s, n + 1, Len(s))
DropLast(s, n) == SubSeq(s, 1, Len(s) - n)

RECURSIVE LStrip(_)
LStrip(s) == IF s # <<>> /\ Head(s) \in Whitespace THEN LStrip(Tail(s)) ELSE s
RECURSIVE RStrip(_)
RStrip(s) ==
    IF s # <<>> /\ s[Len(s)] \in Whitespace THEN RStrip(DropLast(s, 1)) ELSE s
\* str.strip()
Strip(s) == RStrip(LStrip(s))

\* "Strip possible markdown fences": three independent ifs between two strips.
Sanitize(raw) ==
    LET c0 == Strip(raw)
        c1 == IF StartsWith(c0, FenceJson) THEN Drop(c0, Len(FenceJson)) ELSE c0
        c2 == IF StartsWith(c1, Fence) THEN Drop(c1, Len(Fence)) ELSE c1
        c3 == IF EndsWith(c2, Fence) THEN DropLast(c2, Len(Fence)) ELSE c2
    IN  Strip(c3)

\* json.loads: Some(value), or None for json.JSONDecodeError.  White space
\* around the document is allowed by json.loads.
JsonLoads(text) ==
    LET t == Strip(text)
    IN  IF Len(t) = 1 /\ t[1] \in DOMAIN JsonTexts THEN Some(JsonTexts[t[1]]) ELSE None

\* json.loads then ClinicalOutput(**clinical_data): the outcome of validating
\* a text, either the document or the kind of failure.
ParseAndValidate(text) ==
    LET parsed == JsonLoads(text)
    IN  IF parsed = None THEN <<"JSONDecodeError">>
        ELSE IF ~ClinicalOutputAccepts(parsed[1]) THEN <<"ValidationError">>
        ELSE <<"ok", ClinicalOutput(parsed[1])>>


(***************************************************************************)
(* Inputs of the model.                                                    *)
(***************************************************************************)
\* Multipart uploads of POST /api/transcribe: None when the file part is
\* absent, else the file name as stem and extension.
Uploads == {None, Some(<<"visit", "">>)}

TranscriptionRequestFields == {"transcript", "observed_actions"}
Body(t, a) == JObj([transcript |-> JStr(t), observed_actions |-> JStr(a)])
\* A body that is not JSON at all.
NotJson == <<"invalid">>
\* Bodies of POST /api/generate-notes: None when the body is absent.  Every
\* request brings a transcript and observed actions of its own.
Bodies(r) ==
    {None, Some(NotJson),
     Some(JObj([transcript |-> JStr("t" \o ToString(r))])),
     Some(Body("t" \o ToString(r), "a" \o ToString(r)))}

\* Response envelopes of the speech-to-text call: an SDK object or a dict,
\* whose text is absent (None), empty or a transcript.
Transcriptions ==
    [shape : {"object", "dict"}, text : {None, Some(<<>>), Some(<<"h", "i">>)}]

\* Texts the completion provider may send as message content.
Contents ==
    {<<s>> : s \in DOMAIN JsonTexts}
      \cup {<<"x">>, <<>>,
            FenceJson \o <<"GOOD">> \o Fence,
            Fence \o <<"EXTRA">> \o Fence,
            <<" ">> \o FenceJson \o <<" ", "GOOD", " ">> \o Fence \o <<" ">>,
            FenceJson \o Fence,
            FenceJson \o <<"-plan">> \o Fence,
            FenceJson \o Fence \o <<"GOOD">> \o Fence,
            FenceJson \o <<"GOOD">>}

\* Response envelopes of the chat completion call: the list of choices, each
\* an SDK object or a dict, with message.content and (for a dict) text.
Choice(shape, content, text) == [shape |-> shape, content |-> content, text |-> text]
ChatResponses ==
    {<<>>}
      \cup {<<Choice("object", Some(c), None)>> : c \in Contents}
      \cup {<<Choice("object", None, None)>>,
            <<Choice("dict", Some(<<"GOOD">>), None)>>,
            <<Choice("dict", Some(<<>>), Some(<<"EXTRA">>))>>,
            <<Choice("dict", None, Some(<<"GOOD">>))>>,
            <<Choice("dict", None, None)>>}

\* str(chat_resp): the repr of the envelope, which is no JSON document.
Repr == <<"x">>

(***************************************************************************)
(* State.                                                                  *)
(***************************************************************************)
VARIABLES
    reqs,         \* per request: route, position in its handler, locals, response
    store,        \* db.clinical_notes, in insertion order
    tmpFiles,     \* temporary files that exist on disk
    uuids,        \* number of uuid4() values generated so far
    clock,        \* datetime.now(timezone.utc)
    fencePc,      \* fence-stripping specification: position
    fenceX,       \* fence-stripping specification: the text X
    fenceContent  \* fence-stripping specification: the local variable content

vars == <<reqs, store, tmpFiles, uuids, clock, fencePc, fenceX, fenceContent>>
apiVars == <<reqs, store, tmpFiles, uuids, clock>>
fenceVars == <<fencePc, fenceX, fenceContent>>

NoCalls == [stt |-> 0, completion |-> 0, insert |-> 0, find |-> 0]

NewRequest ==
    [route |-> "", pc |-> "new", input |-> None, status |-> 0, response |-> None,
     transcription |-> None, clinical_data |-> None, validated |-> None, doc |-> None,
     tmp_path |-> None, calls |-> NoCalls, cancelledAt |-> ""]

\* Requests are numbered in the order in which they arrive.
Arrives(r) == reqs[r].pc = "new" /\ \A q \in Req : q < r => reqs[q].pc # "new"

AwaitPcs == {"await_read", "await_stt", "await_completion", "await_insert", "await_find"}

\* raise HTTPException(status_code=500, detail=...)
HTTPException(rec, code, detail) ==
    [rec EXCEPT !.pc = "done", !.status = code, !.response = Some(<<"detail", detail>>)]

\* A 200 response with the given payload.
Ok(rec, payload) ==
    [rec EXCEPT !.pc = "done", !.status = 200, !.response = Some(payload)]

Called(rec, what) == [rec EXCEPT !.calls[what] = @ + 1]

ApiInit ==
    /\ reqs = [r \in Req |-> NewRequest]
    /\ store = <<>>
    /\ tmpFiles = {}
    /\ uuids = 0
    /\ clock = 0


(***************************************************************************)
(* GET /api/                                                               *)
(***************************************************************************)
Root(r) ==
    /\ Arrives(r)
    /\ reqs' = [reqs EXCEPT ![r] =
                  Ok([@ EXCEPT !.route = "root"],
                     <<"message", "Pre-Charting AI Assistant API (Groq)">>)]
    /\ UNCHANGED <<store, tmpFiles, uuids, clock, fenceVars>>

(***************************************************************************)
(* POST /api/transcribe                                                    *)
(***************************************************************************)
\* Python truthiness of an optional text, and the operator `or`.
Truthy(opt) == opt # None /\ opt[1] # <<>>
PyOr(a, b) == IF Truthy(a) THEN a ELSE b

\* file: UploadFile = File(...): the file part is required.
FileAccepted(upload) == upload # None

\* Path(file.filename).suffix or ".wav"
Suffix(upload) == IF upload[1][2] = "" THEN ".wav" ELSE upload[1][2]

\* Faulty variant of ExtractText: only the text attribute is looked at, the
\* "text" key of a dict is not.
ExtractTextAttrOnly(tr) ==
    PyOr(IF tr.shape = "object" THEN tr.text ELSE None, None)

\* getattr(transcription, "text", None)
\*   or (transcription.get("text") if isinstance(transcription, dict) else None)
ExtractText(tr) ==
    PyOr(IF tr.shape = "object" THEN tr.text ELSE None,
         IF tr.shape = "dict" THEN tr.text ELSE None)

\* json.dumps(transcription, default=str): a string that spells the envelope.
JsonDumps(tr) == <<"json.dumps", tr>>

\* The value given to TranscriptionResponse(transcript=...).
TranscriptOf(tr) ==
    LET text == ExtractText(tr)
    IN  IF text = None THEN JsonDumps(tr) ELSE <<"text", text[1]>>

\* The request arrives.  Without a file part the framework answers 422 and
\* the handler does not run; with one, the handler creates the temporary
\* file and suspends in file.read().
TranscribeAudio(r, upload) ==
    /\ Arrives(r)
    /\ LET rec == [reqs[r] EXCEPT !.route = "transcribe", !.input = upload]
       IN  IF ~FileAccepted(upload)
           THEN /\ reqs' = [reqs EXCEPT ![r] =
                              HTTPException(rec, 422, "Field required")]
                /\ UNCHANGED tmpFiles
           ELSE /\ reqs' = [reqs EXCEPT ![r] = [rec EXCEPT !.pc = "await_read"]]
                /\ tmpFiles' = tmpFiles \cup {<<"tmp", r, Suffix(upload)>>}
    /\ UNCHANGED <<store, uuids, clock, fenceVars>>

\* file.read() returns: the bytes are written, tmp_path is set, the file is
\* reopened and the speech-to-text call is made.
ReadReturns(r) ==
    /\ reqs[r].pc = "await_read"
    /\ reqs' = [reqs EXCEPT ![r] =
                  Called([@ EXCEPT !.pc = "await_stt",
                                   !.tmp_path = Some(<<"tmp", r, Suffix(reqs[r].input)>>)],
                         "stt")]
    /\ UNCHANGED <<store, tmpFiles, uuids, clock, fenceVars>>

\* file.read() or tmp.write() raises: except Exception turns it into a 500.
ReadRaises(r) ==
    /\ reqs[r].pc = "await_read"
    /\ reqs' = [reqs EXCEPT ![r] = HTTPException(@, 500, "Transcription failed")]
    /\ UNCHANGED <<store, tmpFiles, uuids, clock, fenceVars>>

\* The speech-to-text call returns an envelope: the text is taken from it,
\* the temporary file is unlinked (a failing unlink is swallowed) and the
\* transcript is returned.
SttReturns(r, tr, unlinked) ==
    /\ reqs[r].pc = "await_stt"
    /\ reqs' = [reqs EXCEPT ![r] =
                  Ok([@ EXCEPT !.transcription = Some(tr)],
                     <<"transcript", TranscriptOf(tr)>>)]
    /\ tmpFiles' = IF unlinked THEN tmpFiles \ {reqs[r].tmp_path[1]} ELSE tmpFiles
    /\ UNCHANGED <<store, uuids, clock, fenceVars>>

\* The speech-to-text call raises: except Exception turns it into a 500
\* (the cleanup below the call is not reached).
SttRaises(r) ==
    /\ reqs[r].pc = "await_stt"
    /\ reqs' = [reqs EXCEPT ![r] = HTTPException(@, 500, "Transcription failed")]
    /\ UNCHANGED <<store, tmpFiles, uuids, clock, fenceVars>>

(***************************************************************************)
(* POST /api/generate-notes                                                *)
(***************************************************************************)
\* request: TranscriptionRequest: the body must be a JSON object holding
\* transcript and observed_actions as strings.
BodyAccepted(body) ==
    /\ body # None
    /\ body[1] # NotJson
    /\ ValidItem(body[1], TranscriptionRequestFields)

\* choices[0], then message.content of an object or, for a dict,
\* message.content or text; None when nothing is found.
ExtractContent(choice) ==
    IF choice.shape = "object" /\ choice.content # None THEN choice.content
    ELSE IF choice.shape = "dict" THEN PyOr(choice.content, choice.text)
    ELSE None

\* datetime.isoformat() and datetime.fromisoformat()
IsoFormat(dt) == <<"iso", dt[2]>>
FromIsoFormat(str) == <<"datetime", str[2]>>

\* Faulty variant of ClinicalNote: id declared with a default value instead of
\* a default_factory, so that every note carries the same id.
ClinicalNoteSharedId(body, clinical_data, uuid, now) ==
    [id |-> <<"uuid", 0>>,
     transcript |-> body[2].transcript[2],
     observed_actions |-> body[2].observed_actions[2],
     clinical_output |-> clinical_data,
     timestamp |-> IsoFormat(<<"datetime", now>>)]

\* ClinicalNote(...).model_dump() with the timestamp made a string: the
\* document handed to insert_one.  clinical_output is clinical_data, the
\* parsed dict.
ClinicalNote(body, clinical_data, uuid, now) ==
    [id |-> <<"uuid", uuid>>,
     transcript |-> body[2].transcript[2],
     observed_actions |-> body[2].observed_actions[2],
     clinical_output |-> clinical_data,
     timestamp |-> IsoFormat(<<"datetime", now>>)]

\* Faulty variant of GenerateClinicalNotes: the body is checked by the handler
\* itself, after it has started the chat completion call.
GenerateThenCheckBody(r, body) ==
    /\ Arrives(r)
    /\ LET rec == Called([reqs[r] EXCEPT !.route = "generate-notes", !.input = body],
                         "completion")
       IN  reqs' = [reqs EXCEPT ![r] =
                      IF ~BodyAccepted(body)
                      THEN HTTPException(rec, 422, "Field required")
                      ELSE [rec EXCEPT !.pc = "await_completion"]]
    /\ UNCHANGED <<store, tmpFiles, uuids, clock, fenceVars>>

\* The request arrives.  A missing or malformed body is answered 422 by the
\* framework and the handler does not run; otherwise the handler builds the
\* messages and suspends in the chat completion call.
GenerateClinicalNotes(r, body) ==
    /\ Arrives(r)
    /\ LET rec == [reqs[r] EXCEPT !.route = "generate-notes", !.input = body]
       IN  reqs' = [reqs EXCEPT ![r] =
                      IF ~BodyAccepted(body)
                      THEN HTTPException(rec, 422, "Field required")
                      ELSE Called([rec EXCEPT !.pc = "await_completion"], "completion")]
    /\ UNCHANGED <<store, tmpFiles, uuids, clock, fenceVars>>

\* The chat completion call raises.
CompletionRaises(r) ==
    /\ reqs[r].pc = "await_completion"
    /\ reqs' = [reqs EXCEPT ![r] =
                  HTTPException(@, 500, "Clinical notes generation failed")]
    /\ UNCHANGED <<store, tmpFiles, uuids, clock, fenceVars>>

\* "Save to DB": the validated instance is kept for the return, the note is
\* built from the request and clinical_data, and insert_one is called.
Persist(rec) ==
    Called([rec EXCEPT
              !.pc = "await_insert",
              !.validated = Some(ClinicalOutput(rec.clinical_data[1])),
              !.doc = Some(ClinicalNote(rec.input[1], rec.clinical_data[1],
                                        uuids + 1, clock))],
           "insert")

\* Faulty variant of AfterCompletion: the instance is built with
\* ClinicalOutput.model_construct(**clinical_data), which does not validate,
\* so that a dict the schema rejects reaches insert_one.
SaveWithoutValidation(rec, chat_resp) ==
    IF chat_resp = <<>>
    THEN HTTPException(rec, 500, "Clinical notes generation failed")
    ELSE
    LET found == ExtractContent(chat_resp[1])
        raw == IF found = None THEN Repr ELSE found[1]
        parsed == JsonLoads(Sanitize(raw))
    IN  IF parsed = None
        THEN HTTPException(rec, 500, "Failed to parse LLM response")
        ELSE IF ~IsObj(parsed[1])
        THEN HTTPException([rec EXCEPT !.clinical_data = parsed], 500,
                           "Clinical notes generation failed")
        ELSE Called([rec EXCEPT
                       !.pc = "await_insert",
                       !.clinical_data = parsed,
                       !.validated = parsed,
                       !.doc = Some(ClinicalNote(rec.input[1], parsed[1],
                                                 uuids + 1, clock))],
                    "insert")

\* The handler from the return of the chat completion call to its next
\* suspension: content extraction, fence stripping, json.loads, validation,
\* construction of the note and the call of insert_one.
AfterCompletion(rec, chat_resp) ==
    IF chat_resp = <<>>
    THEN \* choices[0] raises IndexError
         HTTPException(rec, 500, "Clinical notes generation failed")
    ELSE
    LET found == ExtractContent(chat_resp[1])
        raw == IF found = None THEN Repr ELSE found[1]
        content == Sanitize(raw)
        parsed == JsonLoads(content)
    IN  IF parsed = None
        THEN HTTPException(rec, 500, "Failed to parse LLM response")
        ELSE
        LET withData == [rec EXCEPT !.clinical_data = parsed]
        IN  IF ~ClinicalOutputAccepts(parsed[1])
            THEN HTTPException(withData, 500, "Clinical notes generation failed")
            ELSE Persist(withData)

CompletionReturns(r, chat_resp) ==
    /\ reqs[r].pc = "await_completion"
    /\ LET rec == AfterCompletion(reqs[r], chat_resp)
       IN  /\ reqs' = [reqs EXCEPT ![r] = rec]
           /\ uuids' = IF rec.doc # None THEN uuids + 1 ELSE uuids
           /\ clock' = IF rec.doc # None THEN clock + 1 ELSE clock
    /\ UNCHANGED <<store, tmpFiles, fenceVars>>

\* What insert_one leaves in the collection: the document with its _id.
Inserted(doc) ==
    [k \in DOMAIN doc \cup {"_id"} |->
        IF k = "_id" THEN <<"ObjectId", Len(store) + 1>> ELSE doc[k]]

\* insert_one returns: the record is in the collection and the validated
\* document is returned.
InsertReturns(r) ==
    /\ reqs[r].pc = "await_insert"
    /\ store' = Append(store, Inserted(reqs[r].doc[1]))
    /\ reqs' = [reqs EXCEPT ![r] = Ok(@, reqs[r].validated[1])]
    /\ UNCHANGED <<tmpFiles, uuids, clock, fenceVars>>

\* insert_one raises: the handler's except Exception catches it.
InsertRaises(r) ==
    /\ reqs[r].pc = "await_insert"
    /\ reqs' = [reqs EXCEPT ![r] =
                  HTTPException(@, 500, "Clinical notes generation failed")]
    /\ UNCHANGED <<store, tmpFiles, uuids, clock, fenceVars>>

(***************************************************************************)
(* GET /api/notes                                                          *)
(***************************************************************************)
NotesCap == 1000

\* find({}, {"_id": 0}).to_list(1000), then the timestamps parsed back.
FoundNotes ==
    LET n == IF Len(store) < NotesCap THEN Len(store) ELSE NotesCap
    IN  [i \in 1..n |->
            [Without(store[i], "_id") EXCEPT !.timestamp = FromIsoFormat(@)]]

GetClinicalNotes(r) ==
    /\ Arrives(r)
    /\ reqs' = [reqs EXCEPT ![r] =
                  Called([@ EXCEPT !.route = "notes", !.pc = "await_find"], "find")]
    /\ UNCHANGED <<store, tmpFiles, uuids, clock, fenceVars>>

\* Faulty variant of FindReturns: the timestamps are parsed back in the
\* stored documents themselves.
FindReturnsRewritingStore(r) ==
    /\ reqs[r].pc = "await_find"
    /\ reqs' = [reqs EXCEPT ![r] = Ok(@, <<"notes", FoundNotes>>)]
    /\ store' = [i \in 1..Len(store) |->
                    [store[i] EXCEPT !.timestamp = FromIsoFormat(@)]]
    /\ UNCHANGED <<tmpFiles, uuids, clock, fenceVars>>

FindReturns(r) ==
    /\ reqs[r].pc = "await_find"
    /\ reqs' = [reqs EXCEPT ![r] = Ok(@, <<"notes", FoundNotes>>)]
    /\ UNCHANGED <<store, tmpFiles, uuids, clock, fenceVars>>

\* The query raises: the handler has no try, the framework answers 500.
FindRaises(r) ==
    /\ reqs[r].pc = "await_find"
    /\ reqs' = [reqs EXCEPT ![r] = HTTPException(@, 500, "Internal Server Error")]
    /\ UNCHANGED <<store, tmpFiles, uuids, clock, fenceVars>>

(***************************************************************************)
(* Cancellation: asyncio.CancelledError is raised at the await the handler *)
(* is suspended in.  It is a BaseException, which except Exception does    *)
(* not catch: the handler ends there, without a response.  A write that    *)
(* insert_one has already sent may or may not have been applied.           *)
(***************************************************************************)
\* Faulty variant of Cancel: a finally clause of the handler saves what it
\* has when the request is cancelled in the chat completion call.
CancelSavingPartialNote(r, applied) ==
    /\ reqs[r].pc \in AwaitPcs
    /\ reqs' = [reqs EXCEPT ![r] =
                  IF reqs[r].pc = "await_completion"
                  THEN Called([@ EXCEPT !.pc = "done", !.cancelledAt = reqs[r].pc],
                              "insert")
                  ELSE [@ EXCEPT !.pc = "done", !.cancelledAt = reqs[r].pc]]
    /\ store' = IF reqs[r].pc = "await_insert" /\ applied
                THEN Append(store, Inserted(reqs[r].doc[1]))
                ELSE IF reqs[r].pc = "await_completion"
                THEN Append(store, Inserted(ClinicalNote(reqs[r].input[1], JObj(<<>>),
                                                         uuids + 1, clock)))
                ELSE store
    /\ UNCHANGED <<tmpFiles, uuids, clock, fenceVars>>

Cancel(r, applied) ==
    /\ reqs[r].pc \in AwaitPcs
    /\ reqs' = [reqs EXCEPT ![r] = [@ EXCEPT !.pc = "done", !.cancelledAt = reqs[r].pc]]
    /\ store' = IF reqs[r].pc = "await_insert" /\ applied
                THEN Append(store, Inserted(reqs[r].doc[1]))
                ELSE store
    /\ UNCHANGED <<tmpFiles, uuids, clock, fenceVars>>

(***************************************************************************)
(* The API: requests arrive and their handlers interleave at the awaits.   *)
(***************************************************************************)
Init ==
    /\ ApiInit
    /\ fencePc = "off"
    /\ fenceX = <<>>
    /\ fenceContent = <<>>

Next ==
    \E r \in Req :
        \/ Root(r)
        \/ \E upload \in Uploads : TranscribeAudio(r, upload)
        \/ ReadReturns(r)
        \/ ReadRaises(r)
        \/ SttRaises(r)
        \/ \E tr \in Transcriptions, unlinked \in BOOLEAN : SttReturns(r, tr, unlinked)
        \/ \E body \in Bodies(r) : GenerateClinicalNotes(r, body)
        \/ CompletionRaises(r)
        \/ \E chat_resp \in ChatResponses : CompletionReturns(r, chat_resp)
        \/ InsertReturns(r)
        \/ InsertRaises(r)
        \/ GetClinicalNotes(r)
        \/ FindReturns(r)
        \/ FindRaises(r)
        \/ \E applied \in BOOLEAN : Cancel(r, applied)

Spec == Init /\ [][Next]_vars


(***************************************************************************)
(* The fence stripping alone: a text X is wrapped in a markdown JSON fence *)
(* and the lines of generate_clinical_notes that strip fences are run on   *)
(* the wrapped text.                                                       *)
(***************************************************************************)
Alphabet == {Tick, " ", "x", "GOOD"}
Texts == UNION {[1..n -> Alphabet] : n \in 0..MaxLen}

FenceInit ==
    /\ ApiInit
    /\ fencePc = "input"
    /\ fenceX \in Texts
    /\ fenceContent = <<>>

\* The provider answers with X inside a ```json fence.
WrapInFence ==
    /\ fencePc = "input"
    /\ fenceContent' = FenceJson \o fenceX \o Fence
    /\ fencePc' = "wrapped"
    /\ UNCHANGED <<fenceX, apiVars>>

SanitizeContent ==
    /\ fencePc = "wrapped"
    /\ fenceContent' = Sanitize(fenceContent)
    /\ fencePc' = "sanitized"
    /\ UNCHANGED <<fenceX, apiVars>>

FenceNext == WrapInFence \/ SanitizeContent

SpecFence == FenceInit /\ [][FenceNext]_vars


(***************************************************************************)
(* Properties.                                                             *)
(***************************************************************************)
IsGenerate(r) == reqs[r].route = "generate-notes"
IsTranscribe(r) == reqs[r].route = "transcribe"
Done(r) == reqs[r].pc = "done"
Cancelled(r) == reqs[r].cancelledAt # ""
\* The records of the collection that carry the transcript request r sent.
RecordsOf(r) == {i \in 1..Len(store) : store[i].transcript = "t" \o ToString(r)}
\* The document handed to insert_one, as it is found in the collection.
Stored(doc) == {i \in 1..Len(store) : Without(store[i], "_id") = doc}

\* The parsed value does not satisfy the ClinicalOutput schema, spelled out.
LacksField(data) == \E k \in ClinicalOutputFields : k \notin DOMAIN data[2]
HasNullField(data) ==
    \E k \in ClinicalOutputFields : k \in DOMAIN data[2] /\ data[2][k] = JNull
HasBadItem(data) ==
    /\ "icd10_codes" \in DOMAIN data[2]
    /\ data[2]["icd10_codes"][1] = "arr"
    /\ \E i \in 1..Len(data[2]["icd10_codes"][2]) :
          "code" \notin DOMAIN data[2]["icd10_codes"][2][i][2]
SchemaViolated(data) ==
    data[1] # "obj" \/ LacksField(data) \/ HasNullField(data) \/ HasBadItem(data)

\* The request ended in a 500 because the provider call failed or its text
\* is not JSON (nothing was parsed), or because the parsed value violates the
\* schema.
ExtractionFailed(r) ==
    /\ IsGenerate(r) /\ Done(r) /\ reqs[r].status = 500
    /\ \/ reqs[r].clinical_data = None
       \/ SchemaViolated(reqs[r].clinical_data[1])

\* C1: a generate-notes request that fails because the provider call fails,
\* the text is not JSON or the parsed value violates the schema has called
\* insert_one zero times, and no record of it is in the collection.
C1_NoInsertOnExtractionFailure ==
    \A r \in Req :
        ExtractionFailed(r) =>
            /\ reqs[r].calls.insert = 0
            /\ reqs[r].doc = None
            /\ RecordsOf(r) = {}

\* A request failed on the schema while another request's record is stored.
C1_Witness ==
    \E r \in Req :
        /\ ExtractionFailed(r)
        /\ reqs[r].clinical_data # None
        /\ Len(store) = 1

\* C2: a generate-notes request answered 200 has called insert_one exactly
\* once, with a record that carries its own transcript and observed_actions,
\* an id no other record has and a timestamp, and that record is in the
\* collection exactly once.
C2_OneRecordPerSuccess ==
    \A r \in Req :
        (IsGenerate(r) /\ reqs[r].status = 200) =>
            /\ reqs[r].calls.insert = 1
            /\ reqs[r].doc # None
            /\ LET doc == reqs[r].doc[1]
                   body == reqs[r].input[1][2]
               IN  /\ doc.transcript = body.transcript[2]
                   /\ doc.observed_actions = body.observed_actions[2]
                   /\ doc.id[1] = "uuid"
                   /\ doc.timestamp[1] = "iso"
                   /\ Cardinality(Stored(doc)) = 1
                   /\ Cardinality({i \in 1..Len(store) : store[i].id = doc.id}) = 1
                   /\ Cardinality(RecordsOf(r)) = 1

\* Two requests answered 200, each with its record stored.
C2_Witness ==
    /\ Len(store) = 2
    /\ \A r \in {1, 2} : IsGenerate(r) /\ reqs[r].status = 200

\* insert_one was called for the request and its record is not in the
\* collection: the insert failed.
InsertFailed(r) ==
    /\ IsGenerate(r) /\ Done(r) /\ ~Cancelled(r)
    /\ reqs[r].calls.insert = 1
    /\ Stored(reqs[r].doc[1]) = {}

\* C3 as stated: when the response validates and insert_one then fails, the
\* request is still answered 200 with the validated document.
C3_InsertFailureStillReturns ==
    \A r \in Req :
        InsertFailed(r) =>
            /\ reqs[r].status = 200
            /\ reqs[r].response = reqs[r].validated

\* C4: a parsed object that lacks any of the nine required fields makes the
\* request fail with an error, and every 200 response holds all nine fields,
\* none of them null.
C4_FailClosed ==
    \A r \in Req :
        IsGenerate(r) =>
            /\ (/\ reqs[r].clinical_data # None
                /\ reqs[r].clinical_data[1][1] = "obj"
                /\ LacksField(reqs[r].clinical_data[1]))
                  => (Done(r) /\ reqs[r].status = 500 /\ reqs[r].calls.insert = 0)
            /\ reqs[r].status = 200 =>
                  /\ reqs[r].response[1][1] = "obj"
                  /\ DOMAIN reqs[r].response[1][2] = ClinicalOutputFields
                  /\ \A k \in ClinicalOutputFields : reqs[r].response[1][2][k] # JNull

\* A request failed on a document without red_flags, another was answered 200.
C4_Witness ==
    \E r, q \in Req :
        /\ IsGenerate(r) /\ reqs[r].status = 500
        /\ reqs[r].clinical_data = Some(MissingDoc("red_flags"))
        /\ IsGenerate(q) /\ reqs[q].status = 200

\* Neither a text attribute nor a "text" key holds text.
HoldsNoText(tr) == tr.text = None \/ tr.text = Some(<<>>)

\* C5 as stated: when the speech-to-text call returns an envelope from which
\* no text can be extracted the request fails with a 500, and a 200 is given
\* only when text was extracted.
C5_NoTextIsAnError ==
    \A r \in Req :
        (IsTranscribe(r) /\ Done(r) /\ reqs[r].transcription # None) =>
            IF HoldsNoText(reqs[r].transcription[1])
            THEN reqs[r].status = 500
            ELSE reqs[r].status = 200

\* C5 as amended: when the speech-to-text call returns, the request is
\* answered 200 whatever the envelope holds.  The transcript is the text of
\* the envelope, except that for a missing text, and for an empty text
\* attribute of an object, it is json.dumps of the whole envelope.
C5_NoTextFallsBackToDump ==
    \A r \in Req :
        (IsTranscribe(r) /\ Done(r) /\ reqs[r].transcription # None) =>
            LET tr == reqs[r].transcription[1]
                dumped == \/ tr.text = None
                          \/ (tr.shape = "object" /\ tr.text = Some(<<>>))
            IN  /\ reqs[r].status = 200
                /\ reqs[r].response =
                      Some(<<"transcript",
                             IF dumped THEN <<"json.dumps", tr>>
                             ELSE <<"text", tr.text[1]>>>>)

\* The call returned a dict without a "text" key and the request got a 200.
C5_Witness ==
    \E r \in Req :
        /\ IsTranscribe(r) /\ Done(r)
        /\ reqs[r].transcription = Some([shape |-> "dict", text |-> None])
        /\ reqs[r].status = 200

\* C6: a generate-notes request cancelled while it awaits the completion
\* provider has not called insert_one and has no record in the collection,
\* whatever the other requests do.
C6_NoInsertAfterCancel ==
    \A r \in Req :
        (IsGenerate(r) /\ reqs[r].cancelledAt = "await_completion") =>
            /\ reqs[r].calls.insert = 0
            /\ reqs[r].doc = None
            /\ RecordsOf(r) = {}
            /\ reqs[r].status = 0

\* A request was cancelled in the completion call and another request, which
\* arrived after it, has stored its record.
C6_Witness ==
    /\ IsGenerate(1) /\ reqs[1].cancelledAt = "await_completion"
    /\ IsGenerate(2) /\ reqs[2].status = 200
    /\ Len(store) = 1

\* C7: the collection only grows, by one record at the end at a time; the
\* record is added by a generate-notes request whose extraction succeeded,
\* at its insert_one; steps of the other routes leave the collection as it is.
C7_StoreOnlyGrows ==
    [][/\ Len(store') >= Len(store)
       /\ SubSeq(store', 1, Len(store)) = store
       /\ store' # store =>
             \E r \in Req :
                 /\ IsGenerate(r)
                 /\ reqs[r].pc = "await_insert"
                 /\ reqs[r].validated # None
                 /\ reqs'[r].pc = "done"
                 /\ store' = Append(store, Inserted(reqs[r].doc[1]))
       /\ \A r \in Req :
             (reqs'[r] # reqs[r] /\ reqs'[r].route \in {"root", "transcribe", "notes"})
                => store' = store]_vars

\* GET /api/notes has returned a stored record.
C7_Witness ==
    \E r \in Req :
        /\ reqs[r].route = "notes" /\ reqs[r].status = 200
        /\ Len(reqs[r].response[1][2]) = 1
        /\ Len(store) = 1

\* C8 as stated: sanitizing X wrapped in a ```json fence gives X with the
\* surrounding white space trimmed, and validating it has the outcome of
\* validating X.
C8_FenceRoundTrip ==
    fencePc = "sanitized" =>
        /\ fenceContent = Strip(fenceX)
        /\ ParseAndValidate(fenceContent) = ParseAndValidate(fenceX)

\* The input of the request is absent or malformed, spelled out.
LacksInput(r) ==
    \/ IsTranscribe(r) /\ reqs[r].input = None
    \/ /\ IsGenerate(r)
       /\ \/ reqs[r].input = None
          \/ reqs[r].input[1][1] # "obj"
          \/ ~(TranscriptionRequestFields \subseteq DOMAIN reqs[r].input[1][2])

\* C9: a request without its required input is answered 422 and its handler
\* does not run: no speech-to-text call, no completion call, no insert, no
\* temporary file.
C9_RejectedBeforeHandler ==
    \A r \in Req :
        LacksInput(r) =>
            /\ Done(r) /\ reqs[r].status = 422
            /\ reqs[r].calls = NoCalls
            /\ reqs[r].doc = None
            /\ RecordsOf(r) = {}
            /\ \A f \in tmpFiles : f[2] # r

\* Both kinds of request were rejected.
C9_Witness ==
    /\ IsTranscribe(1) /\ LacksInput(1) /\ reqs[1].status = 422
    /\ IsGenerate(2) /\ LacksInput(2) /\ reqs[2].status = 422
    /\ reqs[2].input # None

\* C10 as stated: the clinical_output of the stored record has exactly the
\* fields and values of the document returned to the caller.
C10_StoredIsReturned ==
    \A r \in Req :
        (IsGenerate(r) /\ reqs[r].status = 200) =>
            Some(reqs[r].doc[1].clinical_output) = reqs[r].response

\* The temporary files request r created that still exist.
TempFilesOf(r) == {f \in tmpFiles : f[2] = r}

\* C11 as stated: when a transcribe request completes, with a 200 transcript
\* or with a 500 because the speech-to-text call raised, the temporary file
\* it created for the upload has been deleted.
C11_TempFilesDeleted ==
    \A r \in Req :
        (/\ IsTranscribe(r) /\ Done(r) /\ ~Cancelled(r)
         /\ reqs[r].calls.stt = 1
         /\ reqs[r].status \in {200, 500})
            => TempFilesOf(r) = {}

====
